---- MODULE Spec2Model ----
(***************************************************************************)
(* State-machine model of the batch scripts of easier_life_scripts:        *)
(*   - gcp/cp/CUDs/gcp_cuds_estate.py  (program "cuds_v2": thread pool,    *)
(*     locked progress counter, success and failure lists),                *)
(*   - gcp/cp/gcp_cuds_estate.py       (program "cuds_v1": thread pool,    *)
(*     only the projects-with-CUDs list),                                  *)
(*   - gcp/FinOps/un-attached-disks.py (program "disks": sequential loop), *)
(*   - gcp/cp/Project Users Remove/project_users_remove.py (program        *)
(*     "users_remove": line loop, one removal command per role),           *)
(*   - gcp/cp/IAM/Labels/Getting Labels from Input/                        *)
(*     project_labels_from_input.py (program "labels": sequential loop),   *)
(*   - gcp/cp/all_users.py (program "all_users": sequential loop with a    *)
(*     KeyboardInterrupt handler).                                         *)
(* A behaviour runs one program, chosen in the initial state.              *)
(***************************************************************************)
EXTENDS Integers, Sequences, FiniteSets, TLC

\* ------------------------------------------------------------------ bounds

\* Largest number of entries of the project listing (all_projects).
MaxUnits == 3

\* Largest configured worker cap. The scripts write the cap as a literal
\* (20 in CUDs/gcp_cuds_estate.py:130, 10 in gcp_cuds_estate.py:119); the model
\* draws it from 1..MaxCap so that the cap binds with MaxUnits projects.
MaxCap == 2

\* Largest number of lines of the disks input file.
MaxLines == 3

\* Largest number of zones the zone listing returns.
MaxZones == 2

\* Largest number of polls of one delete operation that find it not DONE.
MaxPolls == 2

\* Largest number of projects of a run that is repeated for comparison.
MaxRerunUnits == 2

\* Largest number of bindings of a fetched IAM policy.
MaxBindings == 2

\* Largest number of lines of the users file of project_users_remove.py.
MaxUserLines == 2

\* Largest number of seconds typed into the timer's entries.
MaxSeconds == 2

Min(a, b) == IF a <= b THEN a ELSE b

Range(s) == {s[i] : i \in 1..Len(s)}

RECURSIVE SumSeq(_)
SumSeq(s) == IF s = <<>> THEN 0 ELSE Head(s) + SumSeq(Tail(s))

\* All sequences over S of length at most n.
SeqsUpTo(S, n) == UNION {[1..k -> S] : k \in 0..n}

VARIABLES
    program,            \* which script runs
    pc,                 \* position of the main thread
    exit_code,          \* process exit status, -1 while running
    run,                \* 1 in the first run of the script, 2 in a repeated run
    configured_max,     \* the literal worker cap of the script
    remote,             \* remote[u]: what gcloud answers for project u
    total_projects,     \* len(filtered_projects)
    max_workers,        \* ThreadPoolExecutor(max_workers=...)
    threads,            \* worker threads the executor has spawned
    submitted,          \* number of executor.submit calls made
    fut,                \* fut[u]: state of the future of project u
    lock,               \* holder of progress_lock, 0 when free
    counter,            \* counter['completed']
    tmp,                \* tmp[u]: value read by u's pending `+= 1`
    observed,           \* observed[u]: counter value u saw after its increment
    progress,           \* the k of each "[k/total]" line printed, in order
    all_project_results,
    projects_with_cuds,
    failed_projects,
    stderr,             \* projects named in "Error processing project" lines
    report,             \* the printed summary, NoReport before it is printed
    prev,               \* report and cap of the previous run
    dry_run,            \* args.dry_run
    input_lines,        \* the lines of the input file while it is read
    entries,            \* parse_input_file's result
    dpos,               \* entries processed so far by the loop
    got,                \* get_disk call of the current entry, NoDisk if none
    get_calls,          \* number of get_disk calls made
    cur,                \* index of the entry whose delete is in progress
    polls,              \* polls of the delete operation answered "not DONE"
    op,                 \* what the delete call and the last poll answered
    deleted_count,
    skipped_count,
    error_count,
    delete_calls,       \* entries for which disks_client.delete was called
    lineno,             \* lines of the file process_input_file has handled
    rc,                 \* process_input_file's local exit_code
    units,              \* (project, member) of the lines handled as entries
    policy_calls,       \* number of get_project_policy calls made
    policy,             \* the policy just fetched, NoPolicy otherwise
    roles,              \* find_roles_for_member's result for the current line
    rpos,               \* roles of the current line handled so far
    calls,              \* roles of the current line a removal was called for
    cmd_rc,             \* return code of the removal command that just ran
    printed,            \* lines printed for the roles of the current line
    failed_so_far,      \* whether a policy fetch / a removal has failed so far
    results,            \* the result rows collected by the sequential loop
    exported,           \* the rows written to the CSV file, NoExport before
    total_seconds,      \* TimerApp.total_seconds
    remaining_seconds,  \* TimerApp.remaining_seconds
    running,            \* TimerApp.running
    after_id,           \* TimerApp.after_id, 0 for None
    hours_var,          \* text of the Hours entry
    minutes_var,        \* text of the Minutes entry
    seconds_var,        \* text of the Seconds entry
    timer_label,        \* <<hh, mm, ss>> shown by the timer label
    scheduled,          \* identifiers of the pending root.after callbacks
    dialog,             \* messagebox shown by the last handler, "" if none
    event,              \* the handler that ran last
    finished,           \* on_timer_finished calls since the countdown started
    since_start         \* tick callbacks run since an undisturbed start, else -1

cudVars == <<configured_max, remote, total_projects, max_workers, threads,
             submitted, fut, lock, counter, tmp, observed, progress,
             all_project_results, projects_with_cuds, failed_projects, stderr,
             report, prev>>

diskVars == <<dry_run, input_lines, entries, dpos, got, get_calls, cur, polls, op,
              deleted_count, skipped_count, error_count, delete_calls>>

iamVars == <<lineno, rc, units, policy_calls, policy, roles, rpos, calls,
             cmd_rc, printed, failed_so_far>>

auditVars == <<results, exported>>

timerVars == <<total_seconds, remaining_seconds, running, after_id, hours_var,
               minutes_var, seconds_var, timer_label, scheduled, dialog,
               event, finished, since_start>>

scriptVars == <<diskVars, iamVars, auditVars, timerVars>>

vars == <<program, pc, exit_code, run, cudVars, scriptVars>>

CudPrograms == {"cuds_v1", "cuds_v2"}

Units == 1..total_projects

\* ------------------------------------------------- the remote query client

\* What `gcloud compute commitments list` does for one project: the command
\* fails ("cmd_error"), prints a JSON value without a length such as null
\* ("scalar"), or prints a JSON list of n commitments. Output that is not
\* JSON ("bad_json") takes the same `return []` as a failed command in
\* get_compute_cuds and is not drawn as a separate input.
Outcomes ==
    {[kind |-> "cmd_error", n |-> 0], [kind |-> "scalar", n |-> 0],
     [kind |-> "list", n |-> 0], [kind |-> "list", n |-> 1]}

\* run_command: success is False exactly when the command failed.
run_command(o) == [success |-> o.kind # "cmd_error", output |-> o]

\* get_compute_cuds: [] on a failed command and on unparsable output, the
\* parsed JSON value otherwise. sized is whether len() accepts the value.
get_compute_cuds(o) ==
    LET result == run_command(o) IN
    IF ~result.success THEN [sized |-> TRUE, len |-> 0]
    ELSE IF result.output.kind = "bad_json" THEN [sized |-> TRUE, len |-> 0]
    ELSE IF result.output.kind = "scalar" THEN [sized |-> FALSE, len |-> 0]
    ELSE [sized |-> TRUE, len |-> result.output.n]

\* get_project_cuds raises (TypeError from len) exactly when the value has no
\* length; otherwise it returns the result dict.
TaskRaises(u) == ~get_compute_cuds(remote[u]).sized

CudInfo(u) == [projectId |-> u, totalCUDs |-> get_compute_cuds(remote[u]).len]

\* ------------------------------------------------------------- enumeration

\* filter_projects: drop the projects whose id starts with "sys-".
filter_projects(projects) == SelectSeq(projects, LAMBDA p : p # "sys")

\* Mutant of MaxWorkers: one worker per project, no cap.
MaxWorkersUncapped(prog, cfg, n) == n

\* max_workers of the executor: min(20, total_projects) in cuds_v2, the bare
\* literal in cuds_v1.
MaxWorkers(prog, cfg, n) == IF prog = "cuds_v2" THEN Min(cfg, n) ELSE cfg

\* The text of an entry field, by what int() makes of it: the decimal text of
\* the integer n, the empty text, or a text int() does not accept.
Digits(n) == [kind |-> "int", n |-> n]
Blank == [kind |-> "blank", n |-> 0]
NotANumber == [kind |-> "other", n |-> 0]

\* int(text or 0) for a text int() accepts.
int_or_0(text) == IF text.kind = "blank" THEN 0 ELSE text.n

\* Mutant of parse_duration: the test for negative values is missing.
ParseAllowsNegative(h, m, s) ==
    IF "other" \in {h.kind, m.kind, s.kind}
    THEN [total |-> 0, error |-> "not_integers"]
    ELSE LET total == int_or_0(h) * 3600 + int_or_0(m) * 60 + int_or_0(s) IN
         IF total = 0 THEN [total |-> 0, error |-> "zero"]
         ELSE [total |-> total, error |-> ""]

\* parse_duration: error is the messagebox shown when None is returned and ""
\* when total is returned.
parse_duration(h, m, s) ==
    IF "other" \in {h.kind, m.kind, s.kind}
    THEN [total |-> 0, error |-> "not_integers"]
    ELSE IF int_or_0(h) < 0 \/ int_or_0(m) < 0 \/ int_or_0(s) < 0
    THEN [total |-> 0, error |-> "negative"]
    ELSE LET total == int_or_0(h) * 3600 + int_or_0(m) * 60 + int_or_0(s) IN
         IF total <= 0 THEN [total |-> 0, error |-> "zero"]
         ELSE [total |-> total, error |-> ""]

\* update_display: the hh, mm and ss the label shows.
update_display(seconds) ==
    <<seconds \div 3600, (seconds % 3600) \div 60, seconds % 60>>

\* The state after TimerApp(root): the fields of __init__, the entry
\* variables of create_widgets and the label after update_display(25 * 60).
InitialTimerRun ==
    /\ total_seconds = 0 /\ remaining_seconds = 0
    /\ running = FALSE /\ after_id = 0
    /\ hours_var = Digits(0) /\ minutes_var = Digits(25) /\ seconds_var = Digits(0)
    /\ timer_label = update_display(25 * 60)
    /\ scheduled = {} /\ dialog = ""
    /\ event = "init" /\ finished = 0 /\ since_start = -1

\* No get_disk call is in progress.
NoDisk ==
    [clients |-> "", listing |-> "", found |-> <<>>, users |-> 0,
     zone |-> 0, error |-> "", probes |-> <<>>]

InitialDiskRun ==
    /\ input_lines = <<>> /\ entries = <<>> /\ dpos = 0
    /\ got = NoDisk /\ get_calls = 0 /\ cur = 0 /\ polls = 0 /\ op = "none"
    /\ deleted_count = 0 /\ skipped_count = 0 /\ error_count = 0
    /\ delete_calls = <<>>

\* No policy has been fetched for the current line.
NoPolicy == [fetched |-> FALSE, bindings |-> <<>>]

\* No policy fetch and no removal command has failed.
NoFailure == [fetch |-> FALSE, removal |-> FALSE]

InitialIamRun ==
    /\ lineno = 0 /\ rc = 0 /\ units = <<>> /\ policy_calls = 0
    /\ policy = NoPolicy /\ roles = <<>> /\ rpos = 0
    /\ calls = <<>> /\ cmd_rc = 0 /\ printed = <<>>
    /\ failed_so_far = NoFailure

\* Nothing has been written to the output file.
NoExport == [written |-> FALSE, rows |-> <<>>]

InitialAuditRun ==
    /\ results = <<>> /\ exported = NoExport

\* The summary before anything is printed.
NoReport ==
    [scanned |-> 0, processed |-> 0, failed |-> 0, with_cuds |-> 0,
     total_cuds |-> 0, all_rows |-> <<>>, cud_rows |-> <<>>,
     failed_rows |-> <<>>]

InitialCudRun ==
    /\ threads = 0 /\ submitted = 0 /\ lock = 0 /\ counter = 0
    /\ progress = <<>> /\ all_project_results = <<>>
    /\ projects_with_cuds = <<>> /\ failed_projects = <<>> /\ stderr = <<>>
    /\ report = NoReport

InitCuds ==
    /\ program \in CudPrograms
    /\ pc = "enumerate" /\ exit_code = -1 /\ run = 1
    /\ configured_max \in 1..MaxCap
    /\ remote = <<>> /\ total_projects = 0 /\ max_workers = 0
    /\ fut = <<>> /\ tmp = <<>> /\ observed = <<>>
    /\ InitialCudRun
    /\ prev = [report |-> NoReport, configured_max |-> 0]
    /\ dry_run = FALSE
    /\ InitialDiskRun
    /\ InitialIamRun
    /\ InitialAuditRun
    /\ InitialTimerRun

\* main, up to the executor: get_all_projects returns [] when the listing
\* command fails or prints no JSON; an empty listing and an empty filtered
\* list both end the process with status 1.
Enumerate ==
    /\ program \in CudPrograms /\ pc = "enumerate"
    /\ \E listing \in {"cmd_error", "bad_json", "json"},
          projects \in SeqsUpTo({"sys", "usr"}, MaxUnits) :
        LET all_projects == IF listing = "json" THEN projects ELSE <<>>
            filtered_projects == filter_projects(all_projects)
            n == Len(filtered_projects)
        IN  IF all_projects = <<>> \/ filtered_projects = <<>>
            THEN /\ pc' = "exit" /\ exit_code' = 1
                 /\ UNCHANGED <<remote, total_projects, max_workers, fut, tmp,
                                observed>>
            ELSE /\ pc' = "submit" /\ exit_code' = exit_code
                 /\ total_projects' = n
                 /\ max_workers' = MaxWorkers(program, configured_max, n)
                 /\ remote' \in [1..n -> Outcomes]
                 /\ fut' = [u \in 1..n |-> "unsubmitted"]
                 /\ tmp' = [u \in 1..n |-> 0]
                 /\ observed' = [u \in 1..n |-> 0]
    /\ UNCHANGED <<program, run, configured_max, threads, submitted, lock,
                   counter, progress, all_project_results, projects_with_cuds,
                   failed_projects, stderr, report, prev, scriptVars>>

\* ---------------------------------------------------------------- executor

Running == Cardinality({u \in Units : fut[u] \in {"running", "inlock"}})

\* executor.submit: queue the work item and spawn a worker thread while fewer
\* than max_workers exist. After the last submit the as_completed loop starts.
Submit ==
    /\ program \in CudPrograms /\ pc = "submit"
    /\ submitted < total_projects
    /\ submitted' = submitted + 1
    /\ fut' = [fut EXCEPT ![submitted + 1] = "queued"]
    /\ threads' = IF threads < max_workers THEN threads + 1 ELSE threads
    /\ pc' = IF submitted + 1 = total_projects THEN "collect" ELSE "submit"
    /\ UNCHANGED <<program, exit_code, run, configured_max, remote,
                   total_projects, max_workers, lock, counter, tmp, observed,
                   progress, all_project_results, projects_with_cuds,
                   failed_projects, stderr, report, prev, scriptVars>>

\* A worker thread is free to take a work item.
WorkerAvailable == Running < threads

\* A free worker takes the oldest queued work item and starts
\* get_project_cuds on it.
Start(u) ==
    /\ program \in CudPrograms
    /\ fut[u] = "queued"
    /\ \A v \in Units : fut[v] = "queued" => u <= v
    /\ WorkerAvailable
    /\ fut' = [fut EXCEPT ![u] = "running"]
    /\ UNCHANGED <<program, pc, exit_code, run, configured_max, remote,
                   total_projects, max_workers, threads, submitted, lock,
                   counter, tmp, observed, progress, all_project_results,
                   projects_with_cuds, failed_projects, stderr, report, prev,
                   scriptVars>>

\* cuds_v1: get_project_cuds runs the query and returns the dict, or raises
\* from len().
FinishV1(u) ==
    /\ program = "cuds_v1"
    /\ fut[u] = "running"
    /\ fut' = [fut EXCEPT ![u] = IF TaskRaises(u) THEN "raised" ELSE "returned"]
    /\ UNCHANGED <<program, pc, exit_code, run, configured_max, remote,
                   total_projects, max_workers, threads, submitted, lock,
                   counter, tmp, observed, progress, all_project_results,
                   projects_with_cuds, failed_projects, stderr, report, prev,
                   scriptVars>>

\* Mutant of LockAvailable: the increment is not guarded by the lock.
LockIgnored == TRUE

\* `with progress_lock:` can be entered.
LockAvailable == lock = 0

\* cuds_v2: the query has returned; the task enters `with progress_lock:` and
\* reads counter['completed'] for the `+= 1`.
AcquireLock(u) ==
    /\ program = "cuds_v2"
    /\ fut[u] = "running"
    /\ LockAvailable
    /\ lock' = u
    /\ tmp' = [tmp EXCEPT ![u] = counter]
    /\ fut' = [fut EXCEPT ![u] = "inlock"]
    /\ UNCHANGED <<program, pc, exit_code, run, configured_max, remote,
                   total_projects, max_workers, threads, submitted, counter,
                   observed, progress, all_project_results, projects_with_cuds,
                   failed_projects, stderr, report, prev, scriptVars>>

\* Mutant of Increment: the update is lost.
IncrementLost(x) == x

\* The value `counter['completed'] += 1` stores, from the value it read.
Increment(x) == x + 1

\* cuds_v2: the task stores the incremented counter, formats the progress line
\* (reading the counter, then len(compute_cuds), which may raise), prints it,
\* leaves the lock and returns the result dict.
ReleaseLock(u) ==
    /\ program = "cuds_v2"
    /\ fut[u] = "inlock"
    /\ counter' = Increment(tmp[u])
    /\ observed' = [observed EXCEPT ![u] = counter']
    /\ tmp' = [tmp EXCEPT ![u] = 0]
    /\ progress' = IF TaskRaises(u) THEN progress ELSE Append(progress, counter')
    /\ lock' = IF lock = u THEN 0 ELSE lock
    /\ fut' = [fut EXCEPT ![u] = IF TaskRaises(u) THEN "raised" ELSE "returned"]
    /\ UNCHANGED <<program, pc, exit_code, run, configured_max, remote,
                   total_projects, max_workers, threads, submitted,
                   all_project_results, projects_with_cuds, failed_projects,
                   stderr, report, prev, scriptVars>>

\* -------------------------------------------------------------- collection

\* Mutant of AppendResult: the list is assigned, not appended to.
OverwriteResult(list, item) == <<item>>

\* Mutant of AppendResult: a merge that keeps the list sorted by project and
\* drops a result that arrives after a later project's.
AppendIfLater(list, item) ==
    IF list # <<>> /\ item.projectId < list[Len(list)].projectId THEN list
    ELSE Append(list, item)

\* list.append(cud_info)
AppendResult(list, item) == Append(list, item)

\* Mutant of CollectReturned: the `if cud_info["totalCUDs"] > 0` test is
\* missing, every returned result is appended to projects_with_cuds.
CollectReturnedUnfiltered(u) ==
    /\ program \in CudPrograms /\ pc = "collect"
    /\ fut[u] = "returned"
    /\ fut' = [fut EXCEPT ![u] = "collected"]
    /\ all_project_results' =
         IF program = "cuds_v2"
         THEN AppendResult(all_project_results, CudInfo(u))
         ELSE all_project_results
    /\ projects_with_cuds' = AppendResult(projects_with_cuds, CudInfo(u))
    /\ UNCHANGED <<program, pc, exit_code, run, configured_max, remote,
                   total_projects, max_workers, threads, submitted, lock,
                   counter, tmp, observed, progress, failed_projects, stderr,
                   report, prev, scriptVars>>

\* Body of the as_completed loop for a future whose result() returns.
CollectReturned(u) ==
    /\ program \in CudPrograms /\ pc = "collect"
    /\ fut[u] = "returned"
    /\ fut' = [fut EXCEPT ![u] = "collected"]
    /\ all_project_results' =
         IF program = "cuds_v2"
         THEN AppendResult(all_project_results, CudInfo(u))
         ELSE all_project_results
    /\ projects_with_cuds' =
         IF CudInfo(u).totalCUDs > 0
         THEN AppendResult(projects_with_cuds, CudInfo(u))
         ELSE projects_with_cuds
    /\ UNCHANGED <<program, pc, exit_code, run, configured_max, remote,
                   total_projects, max_workers, threads, submitted, lock,
                   counter, tmp, observed, progress, failed_projects, stderr,
                   report, prev, scriptVars>>

\* Mutant of CollectRaised: no try/except around future.result(), the
\* task's exception ends main.
CollectRaisedUnhandled(u) ==
    /\ program \in CudPrograms /\ pc = "collect"
    /\ fut[u] = "raised"
    /\ pc' = "crashed" /\ exit_code' = 1
    /\ UNCHANGED <<program, run, cudVars, scriptVars>>

\* Body of the as_completed loop for a future whose result() raises: the
\* except clause records the project (cuds_v2) and prints the error.
CollectRaised(u) ==
    /\ program \in CudPrograms /\ pc = "collect"
    /\ fut[u] = "raised"
    /\ fut' = [fut EXCEPT ![u] = "collected"]
    /\ failed_projects' =
         IF program = "cuds_v2" THEN Append(failed_projects, u)
         ELSE failed_projects
    /\ stderr' = Append(stderr, u)
    /\ UNCHANGED <<program, pc, exit_code, run, configured_max, remote,
                   total_projects, max_workers, threads, submitted, lock,
                   counter, tmp, observed, progress, all_project_results,
                   projects_with_cuds, report, prev, scriptVars>>

\* Mutant of LoopExhausted: the loop is left after the first future.
LoopLeftEarly == \E u \in Units : fut[u] = "collected"

\* as_completed has yielded every future.
LoopExhausted == \A u \in Units : fut[u] = "collected"

\* shutdown(wait=True) has returned: no work item is queued or executing.
WorkersJoined ==
    \A u \in Units : fut[u] \notin {"queued", "running", "inlock"}

\* Leaving the `with ThreadPoolExecutor(...)` block: the loop is over and
\* shutdown(wait=True) has joined the workers.
ExitWith ==
    /\ program \in CudPrograms /\ pc = "collect"
    /\ LoopExhausted
    /\ WorkersJoined
    /\ pc' = "report"
    /\ UNCHANGED <<program, exit_code, run, cudVars, scriptVars>>

\* The RESULTS and SUMMARY blocks: what main prints from the lists.
Summary ==
    [scanned |-> total_projects,
     processed |-> Len(all_project_results),
     failed |-> Len(failed_projects),
     with_cuds |-> Len(projects_with_cuds),
     total_cuds |-> SumSeq([i \in 1..Len(projects_with_cuds) |->
                               projects_with_cuds[i].totalCUDs]),
     all_rows |-> all_project_results,
     cud_rows |-> projects_with_cuds,
     failed_rows |-> failed_projects]

\* Mutant of Report: the rows are popped off the lists as they are printed.
ReportConsuming ==
    /\ program \in CudPrograms /\ pc = "report"
    /\ report' = Summary
    /\ all_project_results' = <<>> /\ projects_with_cuds' = <<>>
    /\ failed_projects' = <<>>
    /\ pc' = "done" /\ exit_code' = 0
    /\ UNCHANGED <<program, run, configured_max, remote, total_projects,
                   max_workers, threads, submitted, fut, lock, counter, tmp,
                   observed, progress, stderr, prev, scriptVars>>

Report ==
    /\ program \in CudPrograms /\ pc = "report"
    /\ report' = Summary
    /\ pc' = "done" /\ exit_code' = 0
    /\ UNCHANGED <<program, run, configured_max, remote, total_projects,
                   max_workers, threads, submitted, fut, lock, counter, tmp,
                   observed, progress, all_project_results, projects_with_cuds,
                   failed_projects, stderr, prev, scriptVars>>

NextCuds ==
    \/ Enumerate
    \/ Submit
    \/ \E u \in Units : Start(u)
    \/ \E u \in Units : FinishV1(u)
    \/ \E u \in Units : AcquireLock(u)
    \/ \E u \in Units : ReleaseLock(u)
    \/ \E u \in Units : CollectReturned(u)
    \/ \E u \in Units : CollectRaised(u)
    \/ ExitWith
    \/ Report

\* ------------------------------------------------------ un-attached-disks

\* A line of the input file after strip() and split(): its fields. A field
\* "#" stands for a field that starts with '#'.
Lines ==
    {<<>>, <<"#">>, <<"#", "d1">>, <<"p1">>, <<"p1", "d1">>, <<"p2", "d2">>,
     <<"p1", "d1", "x">>}

\* Mutant of parse_input_file: the first line with fewer than two fields ends
\* the reading (`break` for `continue`).
RECURSIVE ParseStopsAtMalformed(_)
ParseStopsAtMalformed(lines) ==
    IF lines = <<>> THEN <<>>
    ELSE LET parts == Head(lines)
             rest == ParseStopsAtMalformed(Tail(lines))
         IN  IF parts = <<>> \/ parts[1] = "#" THEN rest
             ELSE IF Len(parts) < 2 THEN <<>>
             ELSE <<<<parts[1], parts[2]>>>> \o rest

\* parse_input_file: blank lines and lines starting with '#' are skipped
\* silently, lines with fewer than two fields with a warning; every other
\* line yields (parts[0], parts[1]).
RECURSIVE parse_input_file(_)
parse_input_file(lines) ==
    IF lines = <<>> THEN <<>>
    ELSE LET parts == Head(lines)
             rest == parse_input_file(Tail(lines))
         IN  IF parts = <<>> \/ parts[1] = "#" THEN rest
             ELSE IF Len(parts) < 2 THEN rest
             ELSE <<<<parts[1], parts[2]>>>> \o rest

InitDisks ==
    /\ program = "disks"
    /\ pc = "open" /\ exit_code = -1 /\ run = 1
    /\ configured_max = 0
    /\ remote = <<>> /\ total_projects = 0 /\ max_workers = 0
    /\ fut = <<>> /\ tmp = <<>> /\ observed = <<>>
    /\ InitialCudRun
    /\ prev = [report |-> NoReport, configured_max |-> 0]
    /\ dry_run \in BOOLEAN
    /\ InitialDiskRun
    /\ InitialIamRun
    /\ InitialAuditRun
    /\ InitialTimerRun

\* parse_input_file, the open(): it raises on an unreadable file and nothing
\* in main catches it; else the file's lines are there to be read.
OpenInput ==
    /\ program = "disks" /\ pc = "open"
    /\ \E readable \in BOOLEAN, lines \in SeqsUpTo(Lines, MaxLines) :
        IF ~readable
        THEN /\ pc' = "crashed" /\ exit_code' = 1
             /\ UNCHANGED input_lines
        ELSE /\ pc' = "parse" /\ input_lines' = lines
             /\ UNCHANGED exit_code
    /\ UNCHANGED <<program, timerVars, run, cudVars, iamVars, auditVars, dry_run,
                   entries, dpos, got, get_calls, cur, polls, op, deleted_count,
                   skipped_count, error_count, delete_calls>>

\* parse_input_file reads the lines and returns the entries.
ParseInput ==
    /\ program = "disks" /\ pc = "parse"
    /\ entries' = parse_input_file(input_lines)
    /\ pc' = "parsed"
    /\ UNCHANGED <<program, timerVars, exit_code, run, cudVars, iamVars, auditVars,
                   dry_run, input_lines, dpos, got, get_calls, cur, polls, op,
                   deleted_count, skipped_count, error_count, delete_calls>>

\* main, up to the loop: the file is closed and the lines are gone; an empty
\* entry list ends the process with status 1.
CheckEntries ==
    /\ program = "disks" /\ pc = "parsed"
    /\ IF entries = <<>>
       THEN pc' = "exit" /\ exit_code' = 1
       ELSE pc' = "loop" /\ exit_code' = exit_code
    /\ input_lines' = <<>>
    /\ UNCHANGED <<program, timerVars, run, cudVars, iamVars, auditVars, dry_run,
                   entries, dpos, got, get_calls, cur, polls, op, deleted_count,
                   skipped_count, error_count, delete_calls>>

\* Mutant of probe_zones: a successful lookup does not end the search; every
\* zone is looked up before the first zone that holds the disk is returned.
RECURSIVE ProbeEveryZone(_, _, _)
ProbeEveryZone(found, i, probes) ==
    IF i > Len(found)
    THEN LET hits == {j \in 1..Len(found) : found[j]} IN
         [zone |-> IF hits = {} THEN 0
                   ELSE CHOOSE j \in hits : \A k \in hits : j <= k,
          error |-> "", probes |-> probes]
    ELSE ProbeEveryZone(found, i + 1, Append(probes, i))

\* get_disk, the loop over the listed zones from zone i on: disks_client.get
\* is called for the zone; a lookup that succeeds returns at once, one that
\* raises goes on to the next zone; after the last zone nothing is returned.
\* found[i] is whether the lookup in zone i succeeds, probes the zones that
\* were looked up so far, in order.
RECURSIVE probe_zones(_, _, _)
probe_zones(found, i, probes) ==
    IF i > Len(found) THEN [zone |-> 0, error |-> "", probes |-> probes]
    ELSE IF found[i]
         THEN [zone |-> i, error |-> "", probes |-> Append(probes, i)]
         ELSE probe_zones(found, i + 1, Append(probes, i))

\* get_disk: building the clients or listing the zones may raise (with or
\* without a message) and the outer except returns str(e); else the zones are
\* probed in listing order.
\* Result: zone is 0 when no disk is returned, error is "" for None and for
\* an exception whose str() is empty.
get_disk(clients, listing, found) ==
    IF clients = "raises" \/ listing = "raises"
    THEN [zone |-> 0, error |-> "msg", probes |-> <<>>]
    ELSE IF listing = "raises_no_msg"
    THEN [zone |-> 0, error |-> "", probes |-> <<>>]
    ELSE probe_zones(found, 1, <<>>)

\* is_disk_unattached: the disk has no users.
is_disk_unattached(users) == users = 0

\* One iteration of main's loop, the get_disk call. got keeps what the remote
\* side answered and what get_disk returned until the entry is done. Answers
\* get_disk never asks for are left empty: no zones after a failed
\* constructor or listing, no users without a disk.
GetDisk ==
    /\ program = "disks" /\ pc = "loop"
    /\ dpos < Len(entries)
    /\ \E clients \in {"ok", "raises"},
          listing \in {"ok", "raises", "raises_no_msg"},
          found \in SeqsUpTo(BOOLEAN, MaxZones), users \in 0..1 :
        LET r == get_disk(clients, listing, found) IN
        /\ clients = "raises" => listing = "ok" /\ found = <<>>
        /\ listing # "ok" => found = <<>>
        /\ (r.zone = 0) => users = 0
        /\ got' = [clients |-> clients,
                   listing |-> IF clients = "raises" THEN "not_called"
                               ELSE listing,
                   found |-> found,
                   users |-> users, zone |-> r.zone, error |-> r.error,
                   probes |-> r.probes]
    /\ get_calls' = get_calls + 1
    /\ pc' = "decide"
    /\ UNCHANGED <<program, timerVars, exit_code, run, cudVars, iamVars, auditVars,
                   dry_run, input_lines, entries, dpos, cur, polls, op,
                   deleted_count, skipped_count, error_count, delete_calls>>

\* The entry is done: the next iteration starts.
NextEntry ==
    /\ dpos' = dpos + 1 /\ got' = NoDisk /\ cur' = 0 /\ polls' = 0 /\ op' = "none"
    /\ pc' = "loop"

\* One iteration of main's loop from the get_disk result to the delete call.
ProcessEntry ==
    /\ program = "disks" /\ pc = "decide"
    /\ IF got.error # ""
       THEN /\ error_count' = error_count + 1
            /\ NextEntry
            /\ UNCHANGED <<deleted_count, skipped_count>>
       ELSE IF got.zone = 0 \/ ~is_disk_unattached(got.users)
       THEN /\ skipped_count' = skipped_count + 1
            /\ NextEntry
            /\ UNCHANGED <<deleted_count, error_count>>
       ELSE IF dry_run
       THEN /\ deleted_count' = deleted_count + 1
            /\ NextEntry
            /\ UNCHANGED <<skipped_count, error_count>>
       ELSE /\ pc' = "delete" /\ cur' = dpos + 1
            /\ UNCHANGED <<dpos, got, polls, op, deleted_count, skipped_count,
                           error_count>>
    /\ UNCHANGED <<program, timerVars, exit_code, run, cudVars, iamVars, auditVars,
                   dry_run, input_lines, entries, get_calls, delete_calls>>

\* Mutant of DeleteFailed: the else branch forgets error_count += 1.
DeleteFailedUncounted ==
    /\ NextEntry
    /\ UNCHANGED <<deleted_count, error_count>>

\* delete_disk returned False: main counts an error and goes to the next
\* entry.
DeleteFailed ==
    /\ error_count' = error_count + 1
    /\ NextEntry
    /\ UNCHANGED deleted_count

\* delete_disk: disks_client.delete is called; if it raises, delete_disk
\* returns False, else wait_for_operation starts polling.
DeleteDisk ==
    /\ program = "disks" /\ pc = "delete"
    /\ delete_calls' = Append(delete_calls, cur)
    /\ \E raises \in BOOLEAN :
        /\ pc' = IF raises THEN "delete_failed" ELSE "wait_op"
        /\ op' = IF raises THEN "delete_raises" ELSE "started"
    /\ UNCHANGED <<program, timerVars, exit_code, run, cudVars, iamVars, auditVars,
                   dry_run, input_lines, entries, dpos, got, get_calls, cur,
                   polls, deleted_count, skipped_count, error_count>>

\* Mutant of PollOperation: result.error is not looked at, so an operation
\* that is DONE with an error makes delete_disk return True.
PollIgnoresError ==
    /\ program = "disks" /\ pc = "wait_op"
    /\ \E answer \in {"not_done", "done", "done_error", "raises"} :
        /\ op' = answer
        /\ IF answer = "not_done"
           THEN /\ polls' = Min(polls + 1, MaxPolls)
                /\ UNCHANGED pc
           ELSE /\ pc' = IF answer = "raises" THEN "delete_failed"
                         ELSE "deleted"
                /\ UNCHANGED polls
    /\ UNCHANGED <<program, timerVars, exit_code, run, cudVars, iamVars, auditVars,
                   dry_run, input_lines, entries, dpos, got, get_calls, cur,
                   deleted_count, skipped_count, error_count, delete_calls>>

\* wait_for_operation: one zone_ops_client.get of the `while True` loop. The
\* loop goes on while the status is not DONE, without any limit: polls counts
\* the not-DONE answers up to MaxPolls and stays there for the later ones.
\* DONE with an error and a raising poll make delete_disk return False, DONE
\* without error makes it return True.
PollOperation ==
    /\ program = "disks" /\ pc = "wait_op"
    /\ \E answer \in {"not_done", "done", "done_error", "raises"} :
        /\ op' = answer
        /\ IF answer = "not_done"
           THEN /\ polls' = Min(polls + 1, MaxPolls)
                /\ UNCHANGED pc
           ELSE /\ pc' = IF answer = "done" THEN "deleted" ELSE "delete_failed"
                /\ UNCHANGED polls
    /\ UNCHANGED <<program, timerVars, exit_code, run, cudVars, iamVars, auditVars,
                   dry_run, input_lines, entries, dpos, got, get_calls, cur,
                   deleted_count, skipped_count, error_count, delete_calls>>

\* main, after delete_disk returned: True counts a deleted disk, False an
\* error.
CountDelete ==
    /\ program = "disks" /\ pc \in {"deleted", "delete_failed"}
    /\ IF pc = "deleted"
       THEN /\ deleted_count' = deleted_count + 1
            /\ NextEntry
            /\ UNCHANGED error_count
       ELSE DeleteFailed
    /\ UNCHANGED <<program, timerVars, exit_code, run, cudVars, iamVars, auditVars,
                   dry_run, input_lines, entries, get_calls, skipped_count,
                   delete_calls>>

\* The loop is over: main prints the summary and returns.
DiskSummary ==
    /\ program = "disks" /\ pc = "loop"
    /\ dpos = Len(entries)
    /\ pc' = "done" /\ exit_code' = 0
    /\ UNCHANGED <<program, run, cudVars, scriptVars>>

NextDisks ==
    \/ OpenInput
    \/ ParseInput
    \/ CheckEntries
    \/ GetDisk
    \/ ProcessEntry
    \/ DeleteDisk
    \/ PollOperation
    \/ CountDelete
    \/ DiskSummary

\* ---------------------------------------------------- project_users_remove

\* A line of the users file after strip() and split(), as in Lines.
UserLines == {<<>>, <<"#", "u1">>, <<"p1">>, <<"p1", "u1">>, <<"p2", "u2">>}

\* A binding of a fetched policy: its role and whether the member of the
\* current line is among its members. A binding without a role (role "") is
\* left out by find_roles_for_member and is not drawn as an input.
PolicyBindings == [role : {"r1", "r2"}, has : BOOLEAN]

\* Mutant of find_roles_for_member: the membership test is left out.
RECURSIVE RolesOfEveryBinding(_)
RolesOfEveryBinding(bindings) ==
    IF bindings = <<>> THEN <<>>
    ELSE LET binding == Head(bindings)
             rest == RolesOfEveryBinding(Tail(bindings))
         IN  IF binding.role # "" THEN <<binding.role>> \o rest ELSE rest

\* find_roles_for_member: the role of every binding that lists the member and
\* has a role, in policy order.
RECURSIVE find_roles_for_member(_)
find_roles_for_member(bindings) ==
    IF bindings = <<>> THEN <<>>
    ELSE LET binding == Head(bindings)
             rest == find_roles_for_member(Tail(bindings))
         IN  IF binding.has /\ binding.role # ""
             THEN <<binding.role>> \o rest
             ELSE rest

InitUsersRemove ==
    /\ program = "users_remove"
    /\ pc = "open" /\ exit_code = -1 /\ run = 1
    /\ configured_max = 0
    /\ remote = <<>> /\ total_projects = 0 /\ max_workers = 0
    /\ fut = <<>> /\ tmp = <<>> /\ observed = <<>>
    /\ InitialCudRun
    /\ prev = [report |-> NoReport, configured_max |-> 0]
    /\ dry_run \in BOOLEAN
    /\ InitialDiskRun
    /\ InitialIamRun
    /\ InitialAuditRun
    /\ InitialTimerRun

\* Mutant of ReturnWith: main ends with status 0 whatever was returned.
ReturnZero(r) == pc' = "done" /\ exit_code' = 0

\* main's sys.exit(rc) after process_input_file returned r from or past the
\* readlines().
ReturnWith(r) == pc' = "done" /\ exit_code' = r

\* process_input_file up to the loop: a path that is no file returns 1, an
\* open() that raises is not caught, a file without lines returns 0.
ReadLines ==
    /\ program = "users_remove" /\ pc = "open"
    /\ \E file \in {"missing", "unreadable", "ok"},
          lines \in SeqsUpTo(UserLines, MaxUserLines) :
        IF file = "missing"
        THEN pc' = "exit" /\ exit_code' = 1 /\ UNCHANGED input_lines
        ELSE IF file = "unreadable"
        THEN pc' = "crashed" /\ exit_code' = 1 /\ UNCHANGED input_lines
        ELSE /\ input_lines' = lines
             /\ IF lines = <<>> THEN ReturnWith(0)
                ELSE pc' = "lines" /\ UNCHANGED exit_code
    /\ UNCHANGED <<program, timerVars, run, cudVars, iamVars, auditVars, dry_run,
                   entries, dpos, got, get_calls, cur, polls, op, deleted_count,
                   skipped_count, error_count, delete_calls>>

\* One iteration of the loop over the lines, up to get_project_policy's
\* return: blank and comment lines are skipped, a line with fewer than two
\* fields sets exit_code = 1; for any other line the policy of parts[0] is
\* fetched, and a failed command or output that is not JSON sets
\* exit_code = 1.
NextLine ==
    /\ program = "users_remove" /\ pc = "lines"
    /\ lineno < Len(input_lines)
    /\ LET parts == input_lines[lineno + 1] IN
        IF parts = <<>> \/ parts[1] = "#"
        THEN /\ lineno' = lineno + 1
             /\ UNCHANGED <<pc, rc, units, policy_calls, policy, printed,
                            failed_so_far>>
        ELSE IF Len(parts) < 2
        THEN /\ lineno' = lineno + 1 /\ rc' = 1
             /\ UNCHANGED <<pc, units, policy_calls, policy, printed,
                            failed_so_far>>
        ELSE /\ units' = Append(units, <<parts[1], parts[2]>>)
             /\ policy_calls' = policy_calls + 1
             /\ \E answer \in {"rc_error", "bad_json", "policy"},
                   bindings \in SeqsUpTo(PolicyBindings, MaxBindings) :
                 IF answer = "policy"
                 THEN /\ policy' = [fetched |-> TRUE, bindings |-> bindings]
                      /\ pc' = "fetched"
                      /\ UNCHANGED <<lineno, rc, printed, failed_so_far>>
                 ELSE /\ bindings = <<>>
                      /\ rc' = 1 /\ pc' = "line_done"
                      /\ failed_so_far' = [failed_so_far EXCEPT !.fetch = TRUE]
                      /\ printed' = <<[role |-> "", tag |-> "POLICY_ERROR"]>>
                      /\ UNCHANGED <<lineno, policy>>
    /\ UNCHANGED <<program, timerVars, exit_code, run, cudVars, diskVars, auditVars,
                   roles, rpos, calls, cmd_rc>>

\* find_roles_for_member on the fetched policy; without roles the line is
\* done ("nothing to remove"), else remove_member_from_project_roles starts.
FindRoles ==
    /\ program = "users_remove" /\ pc = "fetched"
    /\ LET found == find_roles_for_member(policy.bindings) IN
        /\ roles' = found
        /\ IF found = <<>>
           THEN /\ pc' = "line_done"
                /\ printed' = <<[role |-> "", tag |-> "NOTHING"]>>
           ELSE /\ pc' = "removing"
                /\ UNCHANGED printed
    /\ policy' = NoPolicy
    /\ UNCHANGED <<program, timerVars, exit_code, run, cudVars, diskVars, auditVars,
                   lineno, rc, units, policy_calls, rpos, calls, cmd_rc,
                   failed_so_far>>

\* Mutant of RemoveCall: the dry_run test is left out.
RemoveCallAlways(role) ==
    /\ \E code \in {0, 1} : cmd_rc' = code
    /\ calls' = Append(calls, role)
    /\ pc' = "called"
    /\ UNCHANGED rpos

\* Mutant of RemoveCall: a command that failed is run once more.
RemoveCallRetried(role) ==
    IF dry_run
    THEN /\ rpos' = rpos + 1
         /\ pc' = IF rpos + 1 = Len(roles) THEN "line_done" ELSE "removing"
         /\ UNCHANGED <<calls, cmd_rc>>
    ELSE /\ \E code \in {0, 1} :
            /\ cmd_rc' = code
            /\ calls' = IF code # 0 THEN calls \o <<role, role>>
                                    ELSE Append(calls, role)
         /\ pc' = "called"
         /\ UNCHANGED rpos

\* remove_member_from_project_roles, the loop body up to run_gcloud's return:
\* with dry_run the loop goes to the next role; else gcloud
\* remove-iam-policy-binding runs once and returns its code.
RemoveCall(role) ==
    IF dry_run
    THEN /\ rpos' = rpos + 1
         /\ pc' = IF rpos + 1 = Len(roles) THEN "line_done" ELSE "removing"
         /\ UNCHANGED <<calls, cmd_rc>>
    ELSE /\ \E code \in {0, 1} : cmd_rc' = code
         /\ calls' = Append(calls, role)
         /\ pc' = "called"
         /\ UNCHANGED rpos

\* One iteration of remove_member_from_project_roles' loop: the [INFO] line
\* is printed, then the command runs unless dry_run.
RemoveRole ==
    /\ program = "users_remove" /\ pc = "removing"
    /\ rpos < Len(roles)
    /\ printed' = Append(printed, [role |-> roles[rpos + 1], tag |-> "INFO"])
    /\ RemoveCall(roles[rpos + 1])
    /\ UNCHANGED <<program, timerVars, exit_code, run, cudVars, diskVars, auditVars,
                   lineno, rc, units, policy_calls, policy, roles,
                   failed_so_far>>

\* Mutant of ResultTag: a failed removal is printed as done.
ResultTagAlwaysOk(code) == "OK"

\* The line printed for the return code of the removal command: [ERROR] to
\* stderr when it is not 0, [OK] otherwise.
ResultTag(code) == IF code # 0 THEN "ERROR" ELSE "OK"

\* Mutant of ReportRemoval: a removal command that failed also sets
\* process_input_file's exit_code to 1.
ReportRemovalSetsExitCode ==
    /\ program = "users_remove" /\ pc = "called"
    /\ printed' = Append(printed, [role |-> roles[rpos + 1],
                                    tag |-> ResultTag(cmd_rc)])
    /\ rpos' = rpos + 1 /\ cmd_rc' = 0
    /\ failed_so_far' =
         [failed_so_far EXCEPT !.removal = @ \/ ResultTag(cmd_rc) = "ERROR"]
    /\ rc' = IF cmd_rc # 0 THEN 1 ELSE rc
    /\ pc' = IF rpos + 1 = Len(roles) THEN "line_done" ELSE "removing"
    /\ UNCHANGED <<program, timerVars, exit_code, run, cudVars, diskVars, auditVars,
                   lineno, units, policy_calls, policy, roles, calls>>

\* remove_member_from_project_roles, after run_gcloud returned: the result
\* line is printed and the loop goes to the next role; after the last role
\* the function returns.
ReportRemoval ==
    /\ program = "users_remove" /\ pc = "called"
    /\ printed' = Append(printed, [role |-> roles[rpos + 1],
                                    tag |-> ResultTag(cmd_rc)])
    /\ rpos' = rpos + 1 /\ cmd_rc' = 0
    /\ failed_so_far' =
         [failed_so_far EXCEPT !.removal = @ \/ ResultTag(cmd_rc) = "ERROR"]
    /\ pc' = IF rpos + 1 = Len(roles) THEN "line_done" ELSE "removing"
    /\ UNCHANGED <<program, timerVars, exit_code, run, cudVars, diskVars, auditVars,
                   lineno, rc, units, policy_calls, policy, roles, calls>>

\* The line is done (`continue` or the end of the loop body): the loop goes
\* to the next line.
EndLine ==
    /\ program = "users_remove" /\ pc = "line_done"
    /\ lineno' = lineno + 1
    /\ roles' = <<>> /\ rpos' = 0 /\ calls' = <<>> /\ printed' = <<>>
    /\ pc' = "lines"
    /\ UNCHANGED <<program, timerVars, exit_code, run, cudVars, diskVars, auditVars,
                   rc, units, policy_calls, policy, cmd_rc, failed_so_far>>

\* The loop over the lines is over: process_input_file returns exit_code.
ReturnExitCode ==
    /\ program = "users_remove" /\ pc = "lines"
    /\ lineno = Len(input_lines)
    /\ ReturnWith(rc)
    /\ UNCHANGED <<program, run, cudVars, scriptVars>>

NextUsersRemove ==
    \/ ReadLines
    \/ NextLine
    \/ FindRoles
    \/ RemoveRole
    \/ ReportRemoval
    \/ EndLine
    \/ ReturnExitCode

\* ------------------------------------------------ project_labels_from_input

\* A line of the project-numbers file after strip() and split(), as in Lines.
NumberLines == {<<>>, <<"#", "n1">>, <<"n1">>, <<"n2">>, <<"n1", "x">>}

\* Mutant of labels_parse_input_file: a line that comes again later in the
\* file is not appended.
RECURSIVE ParseDistinctLines(_)
ParseDistinctLines(lines) ==
    IF lines = <<>> THEN <<>>
    ELSE LET line == Head(lines)
             rest == ParseDistinctLines(Tail(lines))
         IN  IF line = <<>> \/ line[1] = "#" \/ line \in Range(Tail(lines))
             THEN rest
             ELSE <<line>> \o rest

\* parse_input_file of project_labels_from_input.py: blank lines and lines
\* starting with '#' are skipped, every other stripped line is appended whole.
RECURSIVE labels_parse_input_file(_)
labels_parse_input_file(lines) ==
    IF lines = <<>> THEN <<>>
    ELSE LET line == Head(lines)
             rest == labels_parse_input_file(Tail(lines))
         IN  IF line = <<>> \/ line[1] = "#" THEN rest
             ELSE <<line>> \o rest

InitLabels ==
    /\ program = "labels"
    /\ pc = "open" /\ exit_code = -1 /\ run = 1
    /\ configured_max = 0
    /\ remote = <<>> /\ total_projects = 0 /\ max_workers = 0
    /\ fut = <<>> /\ tmp = <<>> /\ observed = <<>>
    /\ InitialCudRun
    /\ prev = [report |-> NoReport, configured_max |-> 0]
    /\ dry_run = FALSE
    /\ InitialDiskRun
    /\ InitialIamRun
    /\ InitialAuditRun
    /\ InitialTimerRun

\* main, the input file: a path that does not exist ends the process with
\* status 1; an open() that raises is not caught.
OpenLabels ==
    /\ program = "labels" /\ pc = "open"
    /\ \E file \in {"missing", "unreadable", "ok"},
          lines \in SeqsUpTo(NumberLines, MaxLines) :
        IF file = "missing"
        THEN pc' = "exit" /\ exit_code' = 1 /\ UNCHANGED input_lines
        ELSE IF file = "unreadable"
        THEN pc' = "crashed" /\ exit_code' = 1 /\ UNCHANGED input_lines
        ELSE pc' = "parse" /\ input_lines' = lines /\ UNCHANGED exit_code
    /\ UNCHANGED <<program, timerVars, run, cudVars, iamVars, auditVars, dry_run,
                   entries, dpos, got, get_calls, cur, polls, op, deleted_count,
                   skipped_count, error_count, delete_calls>>

\* parse_input_file reads the lines and returns the project numbers.
ParseLabels ==
    /\ program = "labels" /\ pc = "parse"
    /\ entries' = labels_parse_input_file(input_lines)
    /\ pc' = "parsed"
    /\ UNCHANGED <<program, timerVars, exit_code, run, cudVars, iamVars, auditVars,
                   dry_run, input_lines, dpos, got, get_calls, cur, polls, op,
                   deleted_count, skipped_count, error_count, delete_calls>>

\* main, up to the loop: the file is closed and the lines are gone; an empty
\* list of project numbers ends the process with status 1.
CheckNumbers ==
    /\ program = "labels" /\ pc = "parsed"
    /\ IF entries = <<>>
       THEN pc' = "exit" /\ exit_code' = 1
       ELSE pc' = "loop" /\ exit_code' = exit_code
    /\ input_lines' = <<>>
    /\ UNCHANGED <<program, timerVars, run, cudVars, iamVars, auditVars, dry_run,
                   entries, dpos, got, get_calls, cur, polls, op, deleted_count,
                   skipped_count, error_count, delete_calls>>

\* get_project_labels: a failed command and output that is not JSON both
\* return the record whose label fields are 'ERROR'.
get_project_labels(project_number, answer) ==
    [project_id |-> project_number,
     owner |-> IF answer = "ok" THEN "owner" ELSE "ERROR"]

\* One iteration of main's loop: the labels are fetched and appended.
GetLabels ==
    /\ program = "labels" /\ pc = "loop"
    /\ dpos < Len(entries)
    /\ \E answer \in {"ok", "cmd_error", "bad_json"} :
        results' = Append(results,
                          get_project_labels(entries[dpos + 1], answer))
    /\ dpos' = dpos + 1
    /\ UNCHANGED <<program, timerVars, pc, exit_code, run, cudVars, iamVars, exported,
                   dry_run, input_lines, entries, got, get_calls, cur, polls, op,
                   deleted_count, skipped_count, error_count, delete_calls>>

\* The loop is over: the rows are written to the output file; an open() that
\* raises is not caught.
WriteLabels ==
    /\ program = "labels" /\ pc = "loop"
    /\ dpos = Len(entries)
    /\ \E writable \in BOOLEAN :
        IF writable
        THEN /\ exported' = [written |-> TRUE, rows |-> results]
             /\ pc' = "done" /\ exit_code' = 0
        ELSE /\ pc' = "crashed" /\ exit_code' = 1
             /\ UNCHANGED exported
    /\ UNCHANGED <<program, timerVars, run, cudVars, diskVars, iamVars, results>>

NextLabels ==
    \/ OpenLabels
    \/ ParseLabels
    \/ CheckNumbers
    \/ GetLabels
    \/ WriteLabels

\* ---------------------------------------------------------------- all_users

\* What `gcloud projects list` prints, one project id per line; "sys-x"
\* stands for an id that starts with 'sys-'.
ProjectIds == {"p1", "p2", "sys-x"}

\* get_all_projects: the ids that do not start with 'sys-', in listing order.
get_all_projects(listing) == SelectSeq(listing, LAMBDA p : p # "sys-x")

InitAllUsers ==
    /\ program = "all_users"
    /\ pc = "list" /\ exit_code = -1 /\ run = 1
    /\ configured_max = 0
    /\ remote = <<>> /\ total_projects = 0 /\ max_workers = 0
    /\ fut = <<>> /\ tmp = <<>> /\ observed = <<>>
    /\ InitialCudRun
    /\ prev = [report |-> NoReport, configured_max |-> 0]
    /\ dry_run = FALSE
    /\ InitialDiskRun
    /\ InitialIamRun
    /\ InitialAuditRun
    /\ InitialTimerRun

\* main, up to the loop: a failed listing command raises and main's
\* `except Exception` ends the process with status 1, as does an empty list.
ListProjects ==
    /\ program = "all_users" /\ pc = "list"
    /\ \E failed \in BOOLEAN, listing \in SeqsUpTo(ProjectIds, MaxUnits) :
        IF failed
        THEN pc' = "exit" /\ exit_code' = 1 /\ UNCHANGED entries
        ELSE LET projects == get_all_projects(listing) IN
             /\ entries' = projects
             /\ IF projects = <<>>
                THEN pc' = "exit" /\ exit_code' = 1
                ELSE pc' = "loop" /\ exit_code' = exit_code
    /\ UNCHANGED <<program, timerVars, run, cudVars, iamVars, auditVars, dry_run,
                   input_lines, dpos, got, get_calls, cur, polls, op,
                   deleted_count, skipped_count, error_count, delete_calls>>

\* get_project_iam_policy: {} when the command failed, the parsed policy
\* otherwise. members is the number of members the policy's bindings list.
get_project_iam_policy(answer) ==
    IF answer.kind = "cmd_error" THEN [bindings |-> FALSE, members |-> 0]
    ELSE [bindings |-> TRUE, members |-> answer.members]

\* One iteration of main's loop: the policy is fetched and appended to
\* results; output that is not JSON raises out of get_project_iam_policy and
\* main's `except Exception` ends the process with status 1.
AuditProject ==
    /\ program = "all_users" /\ pc = "loop"
    /\ dpos < Len(entries)
    /\ \E answer \in [kind : {"cmd_error", "bad_json", "policy"},
                       members : 0..1] :
        /\ answer.kind # "policy" => answer.members = 0
        /\ IF answer.kind = "bad_json"
           THEN /\ pc' = "exit" /\ exit_code' = 1
                /\ UNCHANGED <<results, dpos>>
           ELSE /\ results' = Append(results,
                      [project_id |-> entries[dpos + 1],
                       policy |-> get_project_iam_policy(answer)])
                /\ dpos' = dpos + 1
                /\ UNCHANGED <<pc, exit_code>>
    /\ UNCHANGED <<program, timerVars, run, cudVars, iamVars, exported, dry_run,
                   input_lines, entries, got, get_calls, cur, polls, op,
                   deleted_count, skipped_count, error_count, delete_calls>>

\* export_to_csv: one row per member of every result that has bindings.
CsvRows(rs) ==
    SelectSeq(rs, LAMBDA r : r.policy.bindings /\ r.policy.members > 0)

\* The loop is over: export_to_csv writes the rows; an open() that raises is
\* caught by main's `except Exception`.
ExportCsv ==
    /\ program = "all_users" /\ pc = "loop"
    /\ dpos = Len(entries)
    /\ \E writable \in BOOLEAN :
        IF writable
        THEN /\ exported' = [written |-> TRUE, rows |-> CsvRows(results)]
             /\ pc' = "done" /\ exit_code' = 0
        ELSE /\ pc' = "exit" /\ exit_code' = 1
             /\ UNCHANGED exported
    /\ UNCHANGED <<program, timerVars, run, cudVars, diskVars, iamVars, results>>

NextAllUsers ==
    \/ ListProjects
    \/ AuditProject
    \/ ExportCsv

\* -------------------------------------------------------------------- timer

\* The fields of the TimerApp the handlers work on, with Tk's pending `after`
\* callbacks and the messagebox the handler has shown.
Self ==
    [total_seconds |-> total_seconds, remaining_seconds |-> remaining_seconds,
     running |-> running, after_id |-> after_id, scheduled |-> scheduled,
     timer_label |-> timer_label, dialog |-> ""]

\* The handler returns to mainloop with the fields in self.
Assign(self) ==
    /\ total_seconds' = self.total_seconds
    /\ remaining_seconds' = self.remaining_seconds
    /\ running' = self.running /\ after_id' = self.after_id
    /\ scheduled' = self.scheduled
    /\ timer_label' = self.timer_label /\ dialog' = self.dialog

\* root.after(1000, self.tick) returns an identifier Tk has not handed out
\* before.
NewAfterId(self) ==
    CHOOSE i \in 1..(Cardinality(self.scheduled) + 2) :
        i \notin self.scheduled /\ i # self.after_id

\* Mutant of Decrement: two seconds are taken off.
DecrementTwice(seconds) == seconds - 2

\* self.remaining_seconds -= 1
Decrement(seconds) == seconds - 1

\* Mutant of TimeIsUp: the countdown ends one second early.
TimeIsUpEarly(seconds) == seconds <= 1

\* tick's test `self.remaining_seconds <= 0`
TimeIsUp(seconds) == seconds <= 0

\* tick
tick(self) ==
    IF ~self.running THEN self
    ELSE IF TimeIsUp(self.remaining_seconds)
    THEN [self EXCEPT !.timer_label = update_display(0),
                      !.running = FALSE, !.after_id = 0,
                      !.dialog = "times_up"]
    ELSE [self EXCEPT !.timer_label = update_display(self.remaining_seconds),
                      !.remaining_seconds = Decrement(@),
                      !.after_id = NewAfterId(self),
                      !.scheduled = @ \cup {NewAfterId(self)}]

\* pause_timer
pause_timer(self) ==
    IF self.running
    THEN [self EXCEPT !.running = FALSE,
                      !.after_id = 0,
                      !.scheduled = IF self.after_id # 0
                                    THEN @ \ {self.after_id} ELSE @]
    ELSE self

\* on_timer_finished calls counted since the countdown was started.
Finishes(self, before) == IF self.dialog = "times_up" THEN before + 1 ELSE before

InitTimer ==
    /\ program = "timer"
    /\ pc = "mainloop" /\ exit_code = -1 /\ run = 1
    /\ configured_max = 0
    /\ remote = <<>> /\ total_projects = 0 /\ max_workers = 0
    /\ fut = <<>> /\ tmp = <<>> /\ observed = <<>>
    /\ InitialCudRun
    /\ prev = [report |-> NoReport, configured_max |-> 0]
    /\ dry_run = FALSE
    /\ InitialDiskRun
    /\ InitialIamRun
    /\ InitialAuditRun
    /\ InitialTimerRun

\* Mutant of CanStart: Start does not look at self.running.
CanStartAlways == TRUE

\* start_timer's test `if not self.running`
CanStart == ~running

\* The Start button: start_timer. since_start becomes 0 when a countdown
\* starts from its full duration and -1 when a paused one resumes.
StartTimer ==
    /\ program = "timer"
    /\ event' = "start"
    /\ IF ~CanStart
       THEN /\ Assign(Self)
            /\ UNCHANGED <<finished, since_start>>
       ELSE IF remaining_seconds <= 0
       THEN LET d == parse_duration(hours_var, minutes_var, seconds_var) IN
            IF d.error # ""
            THEN /\ Assign([Self EXCEPT !.dialog = d.error])
                 /\ UNCHANGED <<finished, since_start>>
            ELSE LET self == tick([Self EXCEPT !.total_seconds = d.total,
                                               !.remaining_seconds = d.total,
                                               !.running = TRUE])
                 IN  /\ Assign(self)
                     /\ finished' = Finishes(self, 0)
                     /\ since_start' = 0
       ELSE LET self == tick([Self EXCEPT !.running = TRUE]) IN
            /\ Assign(self)
            /\ finished' = Finishes(self, 0)
            /\ since_start' =
                 IF remaining_seconds = total_seconds THEN 0 ELSE -1
    /\ UNCHANGED <<program, pc, exit_code, run, cudVars, diskVars, iamVars,
                   auditVars, hours_var, minutes_var, seconds_var>>

\* The Pause button: pause_timer. The event tells whether a countdown was
\* running.
PauseTimer ==
    /\ program = "timer"
    /\ event' = IF running THEN "pause" ELSE "pause_idle"
    /\ Assign(pause_timer(Self))
    /\ since_start' = -1
    /\ UNCHANGED <<program, pc, exit_code, run, cudVars, diskVars, iamVars,
                   auditVars, hours_var, minutes_var, seconds_var, finished>>

\* The Reset button: reset_timer.
ResetTimer ==
    /\ program = "timer"
    /\ event' = "reset"
    /\ LET self == pause_timer(Self)
           d == parse_duration(hours_var, minutes_var, seconds_var)
       IN  IF d.error # ""
           THEN Assign([self EXCEPT !.dialog = d.error])
           ELSE Assign([self EXCEPT !.total_seconds = d.total,
                                    !.remaining_seconds = d.total,
                                    !.timer_label = update_display(d.total)])
    /\ since_start' = -1
    /\ UNCHANGED <<program, pc, exit_code, run, cudVars, diskVars, iamVars,
                   auditVars, hours_var, minutes_var, seconds_var, finished>>

\* The minutes of the preset button that is pressed: the first of the four
\* buttons (5, 10, 15, 20), which all call set_preset_minutes and differ in
\* the length of the countdown only.
PresetMinutes == {5}

\* A preset button: set_preset_minutes(minutes).
SetPresetMinutes ==
    /\ program = "timer"
    /\ event' = "preset"
    /\ \E minutes \in PresetMinutes :
        /\ hours_var' = Digits(0) /\ minutes_var' = Digits(minutes)
        /\ seconds_var' = Digits(0)
        /\ Assign([pause_timer(Self) EXCEPT
                      !.total_seconds = minutes * 60,
                      !.remaining_seconds = minutes * 60,
                      !.timer_label = update_display(minutes * 60)])
    /\ since_start' = -1
    /\ UNCHANGED <<program, pc, exit_code, run, cudVars, diskVars, iamVars,
                   auditVars, finished>>

\* What the user types into the three entries: up to MaxSeconds seconds,
\* nothing at all, a negative number, or something that is no integer.
TypedDurations ==
    {<<Digits(0), Digits(0), Digits(s)>> : s \in 1..MaxSeconds}
        \cup {<<Blank, Blank, Blank>>, <<Digits(0), Digits(0), Digits(-1)>>,
              <<NotANumber, Digits(0), Digits(1)>>}

\* The user edits the entry fields; no handler of the TimerApp runs.
EditDuration ==
    /\ program = "timer"
    /\ \E typed \in TypedDurations :
        /\ hours_var' = typed[1] /\ minutes_var' = typed[2]
        /\ seconds_var' = typed[3]
    /\ UNCHANGED <<program, pc, exit_code, run, cudVars, diskVars, iamVars,
                   auditVars, total_seconds, remaining_seconds, running,
                   after_id, timer_label, scheduled, dialog, event, finished,
                   since_start>>

\* A callback scheduled with root.after(1000, self.tick) is due: Tk takes it
\* from its queue and calls tick. since_start counts these calls.
Tick ==
    /\ program = "timer"
    /\ event' = "tick"
    /\ \E id \in scheduled :
        LET self == tick([Self EXCEPT !.scheduled = @ \ {id}]) IN
        /\ Assign(self)
        /\ finished' = Finishes(self, finished)
    /\ since_start' = IF since_start >= 0 THEN since_start + 1 ELSE -1
    /\ UNCHANGED <<program, pc, exit_code, run, cudVars, diskVars, iamVars,
                   auditVars, hours_var, minutes_var, seconds_var>>

NextTimer ==
    \/ StartTimer
    \/ PauseTimer
    \/ ResetTimer
    \/ SetPresetMinutes
    \/ EditDuration
    \/ Tick

\* timer.py in Tk's mainloop.
SpecTimer == InitTimer /\ [][NextTimer]_vars

\* timer.py in a mainloop that runs the callbacks that are due.
SpecTimerFair == SpecTimer /\ WF_vars(Tick)

Init ==
    InitCuds \/ InitDisks \/ InitUsersRemove \/ InitLabels \/ InitAllUsers

Next ==
    NextCuds \/ NextDisks \/ NextUsersRemove \/ NextLabels \/ NextAllUsers

Spec == Init /\ [][Next]_vars

\* ------------------------------------------------------------ repeated run

\* The operator runs the script a second time on the same estate: the same
\* projects are listed and gcloud answers the same for each; the worker cap
\* may have been edited. The first run's summary is kept for comparison.
Rerun ==
    /\ program = "cuds_v2" /\ pc = "done" /\ exit_code = 0 /\ run = 1
    /\ total_projects <= MaxRerunUnits
    /\ run' = 2
    /\ prev' = [report |-> report, configured_max |-> configured_max]
    /\ configured_max' \in 1..MaxCap
    /\ max_workers' = MaxWorkers(program, configured_max', total_projects)
    /\ pc' = "submit" /\ exit_code' = -1
    /\ fut' = [u \in Units |-> "unsubmitted"]
    /\ tmp' = [u \in Units |-> 0]
    /\ observed' = [u \in Units |-> 0]
    /\ threads' = 0 /\ submitted' = 0 /\ lock' = 0 /\ counter' = 0
    /\ progress' = <<>> /\ all_project_results' = <<>>
    /\ projects_with_cuds' = <<>> /\ failed_projects' = <<>>
    /\ stderr' = <<>> /\ report' = NoReport
    /\ UNCHANGED <<program, remote, total_projects, scriptVars>>

SpecRerun == Init /\ [][Next \/ Rerun]_vars

\* -------------------------------------------------------------- cancellation

\* Ctrl-C while all_users.py lists or audits: the KeyboardInterrupt reaches
\* main's handler, which prints "Operation cancelled by user." and ends the
\* process with status 1. results is dropped with the process and
\* export_to_csv is never called.
Interrupt ==
    /\ program = "all_users" /\ pc \in {"list", "loop"}
    /\ pc' = "cancelled" /\ exit_code' = 1
    /\ UNCHANGED <<program, run, cudVars, scriptVars>>

SpecCancel == Init /\ [][Next \/ Interrupt]_vars

\* ------------------------------------------------------- users removal run

\* project_users_remove.py run by itself.
SpecUsersRemove == InitUsersRemove /\ [][NextUsersRemove]_vars

\* ---------------------------------------------------------- disk deletion

\* The steps of un-attached-disks.py that depend on the script alone. What a
\* poll of the delete operation answers is the service's choice, so
\* PollOperation is not among them.
DiskSteps ==
    \/ OpenInput
    \/ ParseInput
    \/ CheckEntries
    \/ GetDisk
    \/ ProcessEntry
    \/ DeleteDisk
    \/ CountDelete
    \/ DiskSummary

\* un-attached-disks.py as a running process: a step of the script that can
\* be taken is taken, and nothing is assumed about the answers of the polls.
SpecDelete == InitDisks /\ [][NextDisks]_vars /\ WF_vars(DiskSteps)

\* ================================================================== claims

\* The fan-out run is over: main has left the `with ThreadPoolExecutor` block.
Finished == program \in CudPrograms /\ pc \in {"report", "done"}

\* Number of records that name project u in a list of result dicts / of ids.
ResultsOf(list, u) == Cardinality({i \in 1..Len(list) : list[i].projectId = u})
MentionsOf(list, u) == Cardinality({i \in 1..Len(list) : list[i] = u})

\* Outcomes recorded so far: successes plus failures in cuds_v2; cuds_v1
\* keeps only the projects-with-CUDs list and the printed error lines.
Recorded ==
    IF program = "cuds_v2"
    THEN Len(all_project_results) + Len(failed_projects)
    ELSE Len(projects_with_cuds) + Len(stderr)

\* C1 as stated: once the fan-out run has finished, the number of recorded
\* outcomes equals the number of units, in both CUD scripts.
C1_Original == Finished => Recorded = total_projects

\* C1 (amended): once the run has finished every unit's future has been
\* consumed; in cuds_v2 every unit has exactly one recorded outcome (success
\* or failure, so successes + failures = units); in cuds_v1 a unit has one
\* record if its task raised or it has at least one CUD, and none otherwise.
C1_OneOutcomePerUnit ==
    Finished =>
      /\ \A u \in Units : fut[u] = "collected"
      /\ program = "cuds_v2" =>
           /\ Len(all_project_results) + Len(failed_projects) = total_projects
           /\ \A u \in Units :
                ResultsOf(all_project_results, u)
                  + MentionsOf(failed_projects, u) = 1
      /\ program = "cuds_v1" =>
           \A u \in Units :
             ResultsOf(projects_with_cuds, u) + MentionsOf(stderr, u)
               = IF TaskRaises(u) \/ CudInfo(u).totalCUDs > 0 THEN 1 ELSE 0

\* A finished cuds_v2 run over three units with successes and a failure.
C1_Witness ==
    /\ program = "cuds_v2" /\ pc = "done" /\ total_projects = 3
    /\ Len(all_project_results) = 2 /\ Len(failed_projects) = 1

\* C2: at every moment the number of tasks executing is at most
\* min(configured_max, unit_count).
C2_InFlightWithinCap ==
    program \in CudPrograms => Running <= Min(configured_max, total_projects)

\* The cap binds: more units than the cap, the cap's number of tasks running
\* and a unit waiting in the queue.
C2_Witness ==
    /\ program \in CudPrograms
    /\ total_projects > configured_max
    /\ Running = configured_max
    /\ \E u \in Units : fut[u] = "queued"

C4_QueryFailureIsFailure ==
    (program = "cuds_v2" /\ pc = "done") =>
      \A u \in Units :
        remote[u].kind = "cmd_error" =>
          /\ MentionsOf(failed_projects, u) = 1
          /\ ResultsOf(all_project_results, u) = 0

\* C5: the report is produced only after the executor has drained: while
\* the lists are read for the report no task is queued or running, nobody
\* holds the progress lock and no finished future is still to be collected.
C5_ReportAfterDrain ==
    Finished =>
      /\ Running = 0
      /\ lock = 0
      /\ \A u \in Units : fut[u] \notin {"queued", "running", "inlock",
                                          "returned", "raised"}
      /\ submitted = total_projects

\* The report is being produced after a run in which a task raised.
C5_Witness ==
    /\ program \in CudPrograms /\ pc = "report"
    /\ \E u \in Units : TaskRaises(u)
    /\ \E u \in Units : ~TaskRaises(u)

\* Units whose increment of the counter has happened.
Counted == {u \in Units : observed[u] # 0}

\* C6: the counter values observed by the completions are pairwise distinct
\* and are exactly 1..k after k completions, hence 1..N once the run is over.
C6_ObservedValuesExact ==
    program = "cuds_v2" =>
      /\ \A u, v \in Counted : u # v => observed[u] # observed[v]
      /\ {observed[u] : u \in Counted} = 1..Cardinality(Counted)
      /\ Finished => Counted = Units

\* Three completions counted in an order other than submission order.
C6_Witness ==
    /\ program = "cuds_v2" /\ pc = "done" /\ total_projects = 3
    /\ observed[2] = 1 /\ observed[1] = 3

\* C7 as stated: at all times completed equals the number of outcomes
\* recorded so far.
C7_Original == program = "cuds_v2" => counter = Recorded

\* C7 (amended): completed never decreases, is at all times at least the
\* number of outcomes recorded so far (a task counts itself before main
\* collects its future), and equals it once the run has finished.
C7_CounterLeadsOutcomes ==
    /\ [](program = "cuds_v2" =>
            /\ counter >= Recorded
            /\ Finished => counter = Recorded /\ counter = total_projects)
    /\ [][counter' >= counter]_vars

\* The counter is ahead: two tasks have counted themselves, one is recorded.
C7_Witness ==
    /\ program = "cuds_v2" /\ counter = 2 /\ Recorded = 1

\* C8: the summary counters sum to the number of units: processed + failed
\* = scanned in the printed CUD summary, deleted + skipped + errors = parsed
\* entries in the disks summary (and = entries handled so far in the loop).
C8_CountersSumToTotal ==
    /\ (program = "cuds_v2" /\ pc = "done") =>
         /\ report.scanned = total_projects
         /\ report.processed + report.failed = report.scanned
    /\ (program = "disks" /\ pc \in {"loop", "done"}) =>
         deleted_count + skipped_count + error_count = dpos
    /\ (program = "disks" /\ pc = "done") =>
         deleted_count + skipped_count + error_count = Len(entries)

\* A disks summary with a deleted, a skipped and a failed entry.
C8_Witness ==
    /\ program = "disks" /\ pc = "done" /\ ~dry_run
    /\ deleted_count = 1 /\ skipped_count = 1 /\ error_count = 1
    /\ Len(delete_calls) = 2

\* Two summaries with the same content: equal counters and, in each list,
\* the same set of rows (the order of the rows may differ).
SameContent(r1, r2) ==
    /\ r1.scanned = r2.scanned /\ r1.processed = r2.processed
    /\ r1.failed = r2.failed /\ r1.with_cuds = r2.with_cuds
    /\ r1.total_cuds = r2.total_cuds
    /\ Range(r1.all_rows) = Range(r2.all_rows)
    /\ Range(r1.cud_rows) = Range(r2.cud_rows)
    /\ Range(r1.failed_rows) = Range(r2.failed_rows)

\* Both runs of a repeated cuds_v2 scan have printed their summary.
BothRunsDone == program = "cuds_v2" /\ run = 2 /\ pc = "done"

\* C9 as stated: two runs over the same units with the same per-unit results
\* produce identical reports whatever the order of arrival.
C9_Original ==
    (BothRunsDone /\ configured_max = prev.configured_max) =>
      report = prev.report

\* C9 (amended): two runs over the same units with the same per-unit results
\* and the same cap produce reports with the same counters and the same set
\* of rows in every list; the order of the rows follows the arrival order.
C9_ContentOrderIndependent ==
    (BothRunsDone /\ configured_max = prev.configured_max) =>
      SameContent(report, prev.report)

\* Two runs with the same cap whose outcomes arrived in different orders.
C9_Witness ==
    /\ BothRunsDone /\ configured_max = prev.configured_max
    /\ report.all_rows # prev.report.all_rows
    /\ report.cud_rows # prev.report.cud_rows

\* C10 as stated: for a fixed set of units and fixed per-unit results the
\* final report is identical regardless of the cap c, 1 <= c <= unit_count.
C10_Original ==
    (BothRunsDone /\ configured_max # prev.configured_max
       /\ configured_max <= total_projects
       /\ prev.configured_max <= total_projects) =>
      report = prev.report

\* C10 (amended): for caps c # c' with 1 <= c, c' <= unit_count the two
\* reports have the same counters and the same set of rows in every list;
\* only the order of the rows may differ.
C10_ContentCapIndependent ==
    (BothRunsDone /\ configured_max # prev.configured_max
       /\ configured_max <= total_projects
       /\ prev.configured_max <= total_projects) =>
      SameContent(report, prev.report)

\* A run with one worker followed by a run with two workers over two units.
C10_Witness ==
    /\ BothRunsDone /\ total_projects = 2
    /\ prev.configured_max = 1 /\ configured_max = 2 /\ max_workers = 2
    /\ report.with_cuds >= 1 /\ report.failed >= 1

\* The disk get_disk returned for the current entry is one main would delete:
\* no error, found in a zone, no users.
DiskMatched == got.error = "" /\ got.zone # 0 /\ is_disk_unattached(got.users)

\* The [INFO] lines of a dry run for a list of roles, one per role.
InfoLines(rs) == [i \in 1..Len(rs) |-> [role |-> rs[i], tag |-> "INFO"]]

\* C11: with dry-run no remediation call is issued for any unit (no
\* disks_client.delete, no gcloud remove-iam-policy-binding), yet every
\* matching unit is reported as would-be-remediated: each unattached disk is
\* counted in "Would delete", each role of a matching user gets its [INFO]
\* line.
C11_DryRunReportsOnly ==
    /\ [](dry_run =>
            /\ delete_calls = <<>> /\ calls = <<>>
            /\ pc \notin {"delete", "wait_op"}
            /\ (program = "users_remove" /\ pc = "line_done"
                   /\ roles # <<>>) => printed = InfoLines(roles))
    /\ [][(program = "disks" /\ dry_run /\ pc = "decide" /\ DiskMatched)
            => /\ deleted_count' = deleted_count + 1
               /\ delete_calls' = <<>>
               /\ pc' = "loop"]_vars

\* A finished dry run over two unattached disks: both counted, none deleted.
C11_Witness ==
    /\ program = "disks" /\ dry_run /\ pc = "done"
    /\ deleted_count = 2 /\ get_calls = 2 /\ delete_calls = <<>>

\* The roles of the bindings of a policy that list the member.
RolesWithMember(bindings) ==
    {bindings[i].role : i \in {j \in 1..Len(bindings) : bindings[j].has}}

\* C12: a remediation call is issued for a unit only if the run is not a dry
\* run, the unit's query succeeded and the predicate matched: disks_client
\* .delete is called only for the entry whose disk get_disk found, without
\* error and without users; a removal is called only for roles
\* find_roles_for_member returned, and it returns only roles of bindings of
\* the fetched policy that list the member.
C12_RemediationOnlyWhenMatched ==
    /\ [](/\ (program = "disks" /\ pc \in {"delete", "wait_op"}) =>
                /\ ~dry_run /\ DiskMatched /\ got.found[got.zone]
                /\ cur = dpos + 1
          /\ calls # <<>> =>
                /\ program = "users_remove" /\ ~dry_run
                /\ Len(calls) <= Len(roles)
                /\ calls = SubSeq(roles, 1, Len(calls)))
    /\ [][/\ delete_calls' # delete_calls =>
                /\ program = "disks" /\ pc = "delete"
                /\ ~dry_run /\ DiskMatched
                /\ delete_calls' = Append(delete_calls, dpos + 1)
          /\ (program = "users_remove" /\ pc = "fetched") =>
                Range(roles') \subseteq RolesWithMember(policy.bindings)]_vars

\* The member was found in role r2 only and the one removal was called.
C12_Witness ==
    /\ program = "users_remove" /\ pc = "line_done" /\ ~dry_run
    /\ roles = <<"r2">> /\ calls = <<"r2">>

\* A line that names a unit: not blank, not a comment, at least two fields.
IsUnitLine(parts) == Len(parts) >= 2 /\ parts[1] # "#"

\* The units of a file: the first two fields of every unit line, in file
\* order.
UnitsOf(lines) ==
    LET kept == SelectSeq(lines, IsUnitLine)
    IN  [i \in 1..Len(kept) |-> <<kept[i][1], kept[i][2]>>]

\* Lines of the users file the loop of process_input_file has entered.
LinesEntered ==
    IF pc \in {"fetched", "removing", "called", "line_done"}
    THEN lineno + 1 ELSE lineno

\* The file "p1 d1", "# comment", "p2 d2".
C13_File == <<<<"p1", "d1">>, <<"#", "d1">>, <<"p2", "d2">>>>

\* C13: the enumerator skips blank lines, lines starting with '#' and lines
\* with fewer than two fields, and yields one unit per remaining line in file
\* order, going on after a malformed line: parse_input_file's entries are the
\* units of the whole file, process_input_file has handled as units exactly
\* the units of the lines it has entered; the lines "p1 d1", "# comment",
\* "p2 d2" yield exactly the two units (p1, d1) and (p2, d2).
C13_EnumeratorSkipsAndKeepsOrder ==
    /\ (program = "disks" /\ pc = "parsed") =>
          /\ entries = UnitsOf(input_lines)
          /\ input_lines = C13_File =>
                entries = <<<<"p1", "d1">>, <<"p2", "d2">>>>
    /\ (program = "users_remove" /\ pc # "open") =>
          /\ LinesEntered <= Len(input_lines)
          /\ units = UnitsOf(SubSeq(input_lines, 1, LinesEntered))
          /\ policy_calls = Len(units)
    /\ (program = "users_remove" /\ pc = "done") =>
          units = UnitsOf(input_lines)

\* parse_input_file has returned two entries for the three-line file.
C13_Witness ==
    /\ program = "disks" /\ pc = "parsed"
    /\ input_lines = C13_File /\ Len(entries) = 2

\* No two positions of a sequence hold the same value.
NoDuplicates(s) == \A i, j \in 1..Len(s) : s[i] = s[j] => i = j

\* Number of positions of a sequence that hold x.
Occurrences(s, x) == Cardinality({i \in 1..Len(s) : s[i] = x})

\* A line project_labels_from_input.py takes as a project number.
IsNumberLine(line) == line # <<>> /\ line[1] # "#"

\* C14 as stated: the enumerator produces a deduplicated sequence of units.
C14_Original ==
    /\ (program \in {"disks", "labels"} /\ pc = "parsed") =>
          NoDuplicates(entries)
    /\ program = "users_remove" => NoDuplicates(units)

\* C14, amended: the enumerators do not deduplicate. Every unit line yields
\* its unit, so a unit occurs in the sequence as often as lines of the file
\* name it (twice for a line that is there twice), and its query is issued
\* as often.
C14_DuplicatesKept ==
    /\ (program = "disks" /\ pc = "parsed") =>
          /\ Len(entries) = Len(SelectSeq(input_lines, IsUnitLine))
          /\ \A u \in Range(entries) :
                Occurrences(entries, u) = Occurrences(UnitsOf(input_lines), u)
    /\ (program = "labels" /\ pc = "parsed") =>
          /\ Len(entries) = Len(SelectSeq(input_lines, IsNumberLine))
          /\ \A line \in Range(input_lines) :
                IsNumberLine(line) =>
                   Occurrences(entries, line) = Occurrences(input_lines, line)
    /\ (program = "users_remove" /\ pc = "done") =>
          /\ Len(units) = Len(SelectSeq(input_lines, IsUnitLine))
          /\ policy_calls = Len(units)

\* The project number n1 is in the file twice and in the list twice.
C14_Witness ==
    /\ program = "labels" /\ pc = "parsed"
    /\ input_lines = <<<<"n1">>, <<"n1">>>>
    /\ entries = <<<<"n1">>, <<"n1">>>>

\* The process has ended.
Ended == exit_code # -1

\* The units the enumerator of the sequential script has yielded.
Enumerated == IF program = "users_remove" THEN units ELSE entries

\* A line with a field but fewer than two, which is no comment.
IsMalformedLine(parts) == Len(parts) = 1 /\ parts[1] # "#"

\* The line of the users file handled last was an entry whose policy could
\* not be fetched.
PolicyFetchFailed == printed = <<[role |-> "", tag |-> "POLICY_ERROR"]>>

C16_CancelKeepsEveryUnit ==
    (program = "all_users" /\ pc = "cancelled") =>
       /\ exported.written
       /\ Len(results) = Len(entries)

\* The three counters of the disks summary.
DiskCounters == <<deleted_count, skipped_count, error_count>>

\* C17: a unit whose query succeeded and whose predicate matched but whose
\* remediation failed is recorded as a failure, apart from the units that did
\* not match and from the remediated ones: a delete_disk that returned False
\* adds one to Errors and to nothing else, one that returned True adds one to
\* Deleted, a disk that was not found or is attached adds one to Skipped; a
\* removal command that failed gets an [ERROR] line for its role, one that
\* succeeded an [OK] line, and a user without roles the "nothing to remove"
\* line.
C17_FailedRemediationRecorded ==
    /\ [](/\ (program = "users_remove" /\ pc = "line_done" /\ ~dry_run
                /\ roles # <<>>) =>
                /\ Len(printed) = 2 * Len(roles)
                /\ \A i \in 1..Len(roles) :
                      /\ printed[2 * i - 1] = [role |-> roles[i], tag |-> "INFO"]
                      /\ printed[2 * i].role = roles[i]
                      /\ printed[2 * i].tag \in {"OK", "ERROR"}
          /\ (program = "users_remove" /\ pc = "line_done" /\ roles = <<>>) =>
                /\ Len(printed) = 1
                /\ printed[1].tag \in {"NOTHING", "POLICY_ERROR"})
    /\ [][/\ (program = "disks" /\ pc = "delete_failed") =>
                DiskCounters' =
                   <<deleted_count, skipped_count, error_count + 1>>
          /\ (program = "disks" /\ pc = "deleted") =>
                DiskCounters' =
                   <<deleted_count + 1, skipped_count, error_count>>
          /\ (program = "disks" /\ pc = "decide" /\ got.error = ""
                /\ ~DiskMatched) =>
                DiskCounters' =
                   <<deleted_count, skipped_count + 1, error_count>>
          /\ (program = "users_remove" /\ pc = "called") =>
                /\ printed' = Append(printed,
                      [role |-> roles[rpos + 1],
                       tag |-> IF cmd_rc = 0 THEN "OK" ELSE "ERROR"])
                /\ rc' = rc]_vars

\* The first entry's disk was unattached, its delete failed, and the summary
\* so far counts one error and no deleted disk.
C17_Witness ==
    /\ program = "disks" /\ pc = "loop" /\ dpos = 1
    /\ delete_calls = <<1>>
    /\ deleted_count = 0 /\ skipped_count = 0 /\ error_count = 1

\* How far the work item of a project has got.
FutureRank(s) ==
    CASE s = "unsubmitted" -> 0
      [] s = "queued" -> 1
      [] s = "running" -> 2
      [] s = "inlock" -> 3
      [] s \in {"returned", "raised"} -> 4
      [] s = "collected" -> 5

\* Removal commands run for the current line when no role is in progress.
CallsExpected ==
    IF dry_run THEN 0 ELSE IF pc = "called" THEN rpos + 1 ELSE rpos

\* What C18 and its amendment share: every query and every delete is
\* attempted once. get_disk is called once per entry and looks a zone up at
\* most once, disks_client.delete is called at most once per entry, and the
\* policy is fetched once per unit line.
SingleAttemptQueries ==
    /\ program = "disks" =>
          /\ get_calls = (IF pc \in {"open", "parse", "parsed", "loop",
                                     "exit", "crashed", "done"}
                          THEN dpos ELSE dpos + 1)
          /\ NoDuplicates(got.probes)
          /\ NoDuplicates(delete_calls)
          /\ Len(delete_calls) <= get_calls
    /\ program = "users_remove" => policy_calls = Len(units)

RecordedOutcomes ==
    <<all_project_results, projects_with_cuds, failed_projects>>

Looked == program = "disks" /\ got # NoDisk

\* The zones 1..n in listing order.
ZonesUpTo(n) == [i \in 1..n |-> i]

\* What C20 and its amendment share: get_disk returns the first zone in
\* listing order whose lookup succeeds and looks no later zone up; a lookup
\* that fails moves on to the next zone; when every lookup fails it returns
\* no disk and no error after looking each zone up exactly once.
LinearProbe ==
    Looked =>
       /\ got.zone # 0 =>
             /\ got.found[got.zone]
             /\ \A j \in 1..(got.zone - 1) : ~got.found[j]
             /\ got.probes = ZonesUpTo(got.zone)
             /\ got.error = ""
       /\ (got.clients = "ok" /\ got.listing = "ok"
             /\ \A j \in 1..Len(got.found) : ~got.found[j]) =>
             /\ got.zone = 0 /\ got.error = ""
             /\ got.probes = ZonesUpTo(Len(got.found))

Polling == program = "disks" /\ pc = "wait_op"

SequentialScanners == {"labels", "all_users"}

\* C22: in a sequential scanner a failed query (command error or output that
\* cannot be parsed) costs one error or empty record and the loop goes on, so
\* a run that has ended holds a record for every enumerated project, in the
\* order of the enumeration.
C22_ScannerIsolatesFailure ==
    (program \in SequentialScanners /\ Ended) =>
        /\ Len(results) = Len(entries)
        /\ \A i \in 1..Len(entries) : results[i].project_id = entries[i]

\* The recorded results that found at least one commitment, in recording
\* order.
WithCuds(rs) == SelectSeq(rs, LAMBDA r : r.totalCUDs > 0)

\* C23: at every point of the scan of CUDs/gcp_cuds_estate.py,
\* projects_with_cuds is exactly the recorded results with totalCUDs > 0, so
\* it is a subset of all_project_results, and no project is in both
\* all_project_results and failed_projects.
C23_MatchingSubsetOfOutcomes ==
    program = "cuds_v2" =>
        /\ projects_with_cuds = WithCuds(all_project_results)
        /\ Range(projects_with_cuds) \subseteq Range(all_project_results)
        /\ \A i \in 1..Len(all_project_results) :
             \A j \in 1..Len(failed_projects) :
                all_project_results[i].projectId # failed_projects[j]

\* C23 witness: a finished scan with a result with commitments, a result
\* without and a failed project.
C23_Witness ==
    /\ program = "cuds_v2" /\ pc = "done"
    /\ Len(projects_with_cuds) = 1 /\ Len(all_project_results) = 2
    /\ Len(failed_projects) = 1

\* C24: the k of the "[k/total]" lines of a scan of CUDs/gcp_cuds_estate.py,
\* in the order the lines are printed, is strictly increasing, so no k is
\* printed twice, and lies in 1..total, whatever the interleaving of the
\* workers.
C24_ProgressStrictlyIncreasing ==
    program = "cuds_v2" =>
        /\ \A i, j \in 1..Len(progress) : i < j => progress[i] < progress[j]
        /\ \A i \in 1..Len(progress) :
             progress[i] >= 1 /\ progress[i] <= total_projects

\* C24 witness: three lines were printed and the second project's came
\* first.
C24_Witness ==
    /\ program = "cuds_v2" /\ total_projects = 3
    /\ progress = <<1, 2, 3>> /\ observed[2] = 1

\* process_input_file has returned: 1 at the is_file() test ("exit") or its
\* exit_code after the readlines() ("done"). An open() that raises is no
\* return.
Returned == program = "users_remove" /\ pc \in {"exit", "done"}

\* Some line among the first n of the users file is neither blank nor a
\* comment and has fewer than two fields.
MalformedAmong(n) == \E i \in 1..n : IsMalformedLine(input_lines[i])

\* C25: process_input_file returns 1 exactly when the input file is missing,
\* a line that is neither blank nor a comment has fewer than two fields, or a
\* policy fetch failed; a file without lines or with blank and comment lines
\* only returns 0; and at every point of the loop exit_code is 1 exactly when
\* one of the last two has happened so far, so a removal that fails does not
\* change it.
C25_ReturnValueOfProcessInputFile ==
    /\ Returned =>
         /\ exit_code \in {0, 1}
         /\ exit_code = 1 <=>
              \/ pc = "exit"
              \/ MalformedAmong(Len(input_lines))
              \/ failed_so_far.fetch
         /\ (pc = "done" /\ \A i \in 1..Len(input_lines) :
                                input_lines[i] = <<>> \/ input_lines[i][1] = "#")
              => exit_code = 0
    /\ program = "users_remove" =>
         (rc = 1 <=> MalformedAmong(lineno) \/ failed_so_far.fetch)

\* C25 witness: a removal failed, no line was malformed and no fetch failed,
\* and process_input_file returned 0.
C25_Witness ==
    /\ Returned /\ pc = "done" /\ exit_code = 0
    /\ failed_so_far.removal /\ units # <<>>

\* C26: whatever the sequence of Start, Pause, Reset, preset and tick events,
\* 0 <= remaining_seconds <= total_seconds; a tick changes remaining_seconds
\* only while the timer runs with remaining_seconds > 0, and then by exactly
\* -1. This holds for the callback and for the tick() call that start_timer
\* makes itself, which follows the assignment of the full duration when a
\* new countdown starts.
C26_RemainingWithinTotal ==
    /\ [](program = "timer" =>
            remaining_seconds >= 0 /\ remaining_seconds <= total_seconds)
    /\ [][(program = "timer" /\ remaining_seconds' # remaining_seconds) =>
            /\ event' = "tick" =>
                 /\ running /\ remaining_seconds > 0
                 /\ remaining_seconds' = remaining_seconds - 1
            /\ event' = "start" =>
                 /\ ~running /\ running'
                 /\ remaining_seconds' =
                      (IF remaining_seconds > 0 THEN remaining_seconds
                       ELSE total_seconds') - 1]_vars

\* C26 witness: a countdown of two seconds has been decremented to 0 by a
\* tick callback and is still running.
C26_Witness ==
    /\ program = "timer" /\ event = "tick" /\ running
    /\ total_seconds = 2 /\ remaining_seconds = 0

\* C27: at most one tick callback is pending; while running is False none is
\* pending and after_id is None; a stored after_id names the pending
\* callback.
C27_SingleCountdownChain ==
    program = "timer" =>
        /\ Cardinality(scheduled) <= 1
        /\ ~running => scheduled = {} /\ after_id = 0
        /\ after_id # 0 => scheduled = {after_id}

\* C27 witness: Start was pressed on a paused countdown, which runs again
\* with one pending callback.
C27_Witness ==
    /\ program = "timer" /\ event = "start" /\ running
    /\ since_start = -1 /\ Cardinality(scheduled) = 1

\* C28: Start after the Pause of a running countdown resumes it: no duration
\* is read (so no error dialog), total_seconds is unchanged, the label shows
\* the remaining_seconds of the pause and remaining_seconds is not set back.
C28_PauseThenStartResumes ==
    [][(program = "timer" /\ event = "pause" /\ event' = "start") =>
          /\ running' /\ dialog' = ""
          /\ total_seconds' = total_seconds
          /\ timer_label' = update_display(remaining_seconds)
          /\ remaining_seconds' <= remaining_seconds]_vars

\* C29: a countdown started from its full duration T and not paused, reset or
\* re-preset afterwards finishes: while it runs, the tick callbacks run so
\* far and remaining_seconds add up to T - 1; when it has stopped, exactly T
\* callbacks have run, the label shows 00:00:00, after_id is None, nothing is
\* pending and on_timer_finished was called once; and it does stop.
C29_CountdownFinishes ==
    /\ [](program = "timer" /\ since_start >= 0 =>
            /\ total_seconds > 0 /\ finished <= 1
            /\ running =>
                 /\ since_start = total_seconds - remaining_seconds - 1
                 /\ finished = 0
            /\ ~running =>
                 /\ since_start = total_seconds /\ remaining_seconds = 0
                 /\ timer_label = <<0, 0, 0>>
                 /\ after_id = 0 /\ scheduled = {}
                 /\ finished = 1)
    /\ [][(program = "timer" /\ finished' # finished /\ finished' > 0) =>
            dialog' = "times_up" /\ ~running']_vars
    /\ (program = "timer" /\ since_start = 0 /\ running) ~>
            \/ since_start = -1
            \/ ~running /\ since_start = total_seconds /\ finished = 1

\* C29 witness: the five-minute preset was started and has finished after
\* 300 callbacks.
C29_Witness ==
    /\ program = "timer" /\ ~running /\ event = "tick"
    /\ total_seconds = 300 /\ since_start = 300 /\ finished = 1

\* The entries hold no valid duration: a text that is no integer, a negative
\* value, or a total of zero.
InvalidDuration ==
    LET fields == {hours_var, minutes_var, seconds_var} IN
    \/ \E f \in fields : f.kind = "other"
    \/ \E f \in fields : f.kind = "int" /\ f.n < 0
    \/ \A f \in fields : f.kind = "blank" \/ f.n = 0

\* C30: with an invalid duration in the entries, Start on a stopped timer
\* with remaining_seconds <= 0 changes none of running, total_seconds and
\* remaining_seconds, and Reset changes neither total_seconds nor
\* remaining_seconds but leaves the timer stopped with no callback pending.
C30_InvalidDurationChangesNothing ==
    [][(program = "timer" /\ InvalidDuration) =>
          /\ (event' = "start" /\ ~running /\ remaining_seconds <= 0) =>
               /\ running' = running
               /\ total_seconds' = total_seconds
               /\ remaining_seconds' = remaining_seconds
               /\ timer_label' = timer_label /\ finished' = finished
          /\ event' = "reset" =>
               /\ total_seconds' = total_seconds
               /\ remaining_seconds' = remaining_seconds
               /\ timer_label' = timer_label
               /\ ~running' /\ after_id' = 0 /\ scheduled' = {}]_vars

\* C30 witness: Reset with an invalid duration has stopped a running
\* countdown part of the way and shown the error dialog.
C30_Witness ==
    /\ program = "timer" /\ event = "reset" /\ InvalidDuration
    /\ dialog \in {"not_integers", "negative", "zero"}
    /\ ~running /\ remaining_seconds > 0
    /\ remaining_seconds < total_seconds

====
